---- MODULE Spec2Model ----
(***************************************************************************)
(* Model of nvim_mcp/server.py: a bridge that attaches to one Nvim over a  *)
(* socket at import time, loads a companion Lua script, registers thirteen *)
(* tools with a FastMCP server and serves tool invocations over stdio.     *)
(*                                                                         *)
(* Python values are records [t, i, s]: t is the Python type, i the        *)
(* integer payload (int value, bool as 0/1, number of keys of a dict) and  *)
(* s the text payload (the str itself, or the 'output' entry of a dict).   *)
(***************************************************************************)
EXTENDS Integers, Sequences, FiniteSets, TLC

\* ------------------------------------------------------------------ bounds
MaxInt == 10
MaxDepth == 1

\* ------------------------------------------------------- Python values
PyNone == [t |-> "none", i |-> 0, s |-> ""]
PyInt(n) == [t |-> "int", i |-> n, s |-> ""]
PyString(x) == [t |-> "str", i |-> 0, s |-> x]
PyBool(b) == [t |-> "bool", i |-> IF b THEN 1 ELSE 0, s |-> ""]
PyDict(n, out) == [t |-> "dict", i |-> n, s |-> out]

Digit == <<"0", "1", "2", "3", "4", "5", "6", "7", "8", "9">>

RECURSIVE IntStr(_)
\* decimal rendering of a natural number, most significant digit first
IntStr(n) ==
    IF n < 10 THEN Digit[n + 1]
    ELSE IntStr(n \div 10) \o Digit[(n % 10) + 1]

\* Python truthiness, as used by `if result` / `if not NVIM`
Truthy(v) ==
    CASE v.t = "none" -> FALSE
      [] v.t = "int"  -> v.i # 0
      [] v.t = "bool" -> v.i = 1
      [] v.t = "str"  -> v.s # ""
      [] v.t = "dict" -> v.i > 0

\* Python str(v)
str(v) ==
    CASE v.t = "none" -> "None"
      [] v.t = "int"  -> IntStr(v.i)
      [] v.t = "bool" -> (IF v.i = 1 THEN "True" ELSE "False")
      [] v.t = "str"  -> v.s
      [] v.t = "dict" -> (IF v.i = 0 THEN "{}"
                          ELSE "{'output': '" \o v.s \o "'}")

\* ------------------------------------------------ text helpers (claims)
StartsWith(x, p) == Len(x) >= Len(p) /\ SubSeq(x, 1, Len(p)) = p

Contains(x, p) ==
    \E k \in 0..Len(x) :
        k + Len(p) <= Len(x) /\ SubSeq(x, k + 1, k + Len(p)) = p

\* ------------------------------------------------------------- startup
VERSION == "nvim-mcp-server v0.1.0"
SOCKET == "/tmp/nvim.sock"

\* values os.environ.get("NVIM") can yield
EnvValues == {PyNone, PyString(""), PyString(SOCKET)}

NoSession == 0

EnvMissingNoneOnly(v) == v.t = "none"

\* `if not NVIM`
EnvMissing(v) == ~Truthy(v)

ToolOrder ==
    << "execute_vimscript", "execute_lua", "get_diagnostics",
       "get_symbols_overview", "find_symbol", "find_referencing_symbols",
       "replace_symbol_body", "insert_after_symbol", "insert_before_symbol",
       "rename_symbol", "format", "restart_language_server",
       "get_lsp_client_info" >>

Tools == {ToolOrder[k] : k \in 1..Len(ToolOrder)}

\* ----------------------------------------------------- argument bags
Codes == {"return 1+1", "local x = 1"}
Paths == {"", "a.py"}
Names == {"Foo/bar"}
Bodies == {"pass"}
Depths == 0..MaxDepth

\* the argument bag of a tool, as a tuple in the declared parameter order
ArgBags(tool) ==
    CASE tool = "execute_vimscript" -> {<<"echo 1">>}
      [] tool = "execute_lua" -> {<<c>> : c \in Codes}
      [] tool = "get_diagnostics" -> {<<p>> : p \in Paths}
      [] tool = "get_symbols_overview" -> {<<p, d>> : p \in Paths, d \in Depths}
      [] tool = "find_symbol" ->
            {<<n, p, d>> : n \in Names, p \in Paths, d \in Depths}
      [] tool = "find_referencing_symbols" ->
            {<<n, p>> : n \in Names, p \in Paths}
      [] tool \in {"replace_symbol_body", "insert_after_symbol",
                   "insert_before_symbol"} ->
            {<<n, p, b>> : n \in Names, p \in Paths, b \in Bodies}
      [] tool = "rename_symbol" ->
            {<<n, p, m>> : n \in Names, p \in Paths, m \in {"baz"}}
      [] tool = "format" -> {<<p>> : p \in Paths}
      [] OTHER -> {<< >>}

\* ------------------------------------------------------ remote calls
\* the remote function a handler calls
RemoteTarget(tool) ==
    CASE tool = "execute_vimscript" -> "nvim_exec2"
      [] tool = "execute_lua" -> "nvim_exec_lua"
      [] OTHER -> "NvimMcpServer." \o tool

ExecOpts == [output |-> TRUE]

RemoteCallSubstitutesEmptyPath(tool, args) ==
    [fn |-> RemoteTarget(tool),
     args |-> IF tool = "execute_vimscript" THEN args \o <<ExecOpts>>
              ELSE IF tool = "get_diagnostics" /\ args[1] = "" THEN <<".">>
              ELSE args]

\* the request a handler sends for an argument bag
RemoteCall(tool, args) ==
    [fn |-> RemoteTarget(tool),
     args |-> IF tool = "execute_vimscript" THEN args \o <<ExecOpts>>
              ELSE args]

\* ---------------------------------------------------- remote replies
Value(v) == [kind |-> "value", val |-> v, type |-> "", msg |-> ""]
Fault(ty, m) == [kind |-> "fault", val |-> PyNone, type |-> ty, msg |-> m]

Faults == {Fault("NvimError", "E5108: boom"), Fault("OSError", "EOF")}

LuaValues ==
    {PyNone, PyInt(0), PyInt(2), PyInt(MaxInt), PyString(""), PyBool(FALSE)}
VimValues == {PyDict(1, "1"), PyDict(0, "")}
ExtValues == {PyDict(1, "result")}

ValuesOf(tool) ==
    CASE tool = "execute_vimscript" -> VimValues
      [] tool = "execute_lua" -> LuaValues
      [] OTHER -> ExtValues

\* ---------------------------------------------------------- handlers
Return(v) == [kind |-> "return", val |-> v, type |-> "", msg |-> ""]
Raise(e) == [kind |-> "raise", val |-> PyNone, type |-> e.type, msg |-> e.msg]

\* f"Error: {type(e).__name__}: {e}"
ErrorText(e) == "Error: " \o e.type \o ": " \o e.msg

execute_vimscript(reply) ==
    IF reply.kind = "fault" THEN Return(PyString(ErrorText(reply)))
    ELSE Return(PyString(IF Truthy(reply.val) THEN str(reply.val) ELSE ""))

execute_lua_falsy_is_nil(reply) ==
    IF reply.kind = "fault" THEN Return(PyString(ErrorText(reply)))
    ELSE IF ~Truthy(reply.val) THEN Return(PyString("nil"))
    ELSE Return(PyString(str(reply.val)))

execute_lua(reply) ==
    IF reply.kind = "fault" THEN Return(PyString(ErrorText(reply)))
    ELSE IF reply.val.t = "none" THEN Return(PyString("nil"))
    ELSE Return(PyString(str(reply.val)))

get_diagnostics(reply) ==
    IF reply.kind = "fault" THEN Return(PyString(ErrorText(reply)))
    ELSE Return(reply.val)

\* the ten handlers of the form `return vim.lua.NvimMcpServer.f(...)`
passthrough(reply) ==
    IF reply.kind = "fault" THEN Raise(reply) ELSE Return(reply.val)


\* ------------------------------------------------------------- state
VARIABLES
    NVIM,            \* os.environ.get("NVIM")
    version,         \* args.version: -v / --version was given
    pc,              \* position of the process
    vim,             \* the module-level session handle (NoSession before attach)
    attachAttempts,  \* number of attach("socket", ...) calls made
    mcp,             \* TRUE once FastMCP(...) has been constructed
    bootCount,       \* number of `luafile` commands sent
    bootStatus,      \* "none", "ok" or "failed"
    registered,      \* tools registered by the @mcp.tool() decorators
    stdout,          \* lines printed by main
    exitCode,        \* -1 while running
    inv,             \* the invocation being handled
    call,            \* the remote request in flight
    calls,           \* remote requests issued for inv
    last,            \* the most recent completed invocation
    prev             \* the completed invocation before last

vars == << NVIM, version, pc, vim, attachAttempts, mcp, bootCount, bootStatus,
           registered, stdout, exitCode, inv, call, calls, last, prev >>

NoInv == [tool |-> "", args |-> << >>]
NoCall == [fn |-> "", args |-> << >>, session |-> NoSession]
NoEntry ==
    [tool |-> "", args |-> << >>, reply |-> Value(PyNone),
     outcome |-> Return(PyNone), calls |-> 0]

HandlerPoisonedByEarlierFault(tool, reply) ==
    IF last.tool # "" /\ last.reply.kind = "fault"
    THEN Return(PyString("Error: session unusable"))
    ELSE CASE tool = "execute_vimscript" -> execute_vimscript(reply)
           [] tool = "execute_lua" -> execute_lua(reply)
           [] tool = "get_diagnostics" -> get_diagnostics(reply)
           [] OTHER -> passthrough(reply)

\* the registry: the outcome of the handler registered under `tool`
\* once its remote request has been answered with `reply`
Handler(tool, reply) ==
    CASE tool = "execute_vimscript" -> execute_vimscript(reply)
      [] tool = "execute_lua" -> execute_lua(reply)
      [] tool = "get_diagnostics" -> get_diagnostics(reply)
      [] OTHER -> passthrough(reply)

Init ==
    /\ NVIM \in EnvValues
    /\ version \in BOOLEAN
    /\ pc = "import"
    /\ vim = NoSession
    /\ attachAttempts = 0
    /\ mcp = FALSE
    /\ bootCount = 0
    /\ bootStatus = "none"
    /\ registered = {}
    /\ stdout = << >>
    /\ exitCode = -1
    /\ inv = NoInv
    /\ call = NoCall
    /\ calls = 0
    /\ last = NoEntry
    /\ prev = NoEntry

\* an uncaught exception at module level or in main ends the process
Crash == pc' = "crashed" /\ exitCode' = 1

\* lines 8-10
CheckEnv ==
    /\ pc = "import"
    /\ IF EnvMissing(NVIM)
       THEN Crash
       ELSE pc' = "attach" /\ UNCHANGED exitCode
    /\ UNCHANGED << NVIM, version, vim, attachAttempts, mcp, bootCount,
                    bootStatus, registered, stdout, inv, call, calls,
                    last, prev >>

\* line 11, the socket accepts the connection
AttachOk ==
    /\ pc = "attach"
    /\ attachAttempts' = attachAttempts + 1
    /\ vim' = attachAttempts + 1
    /\ pc' = "mkmcp"
    /\ UNCHANGED << NVIM, version, mcp, bootCount, bootStatus, registered,
                    stdout, exitCode, inv, call, calls, last, prev >>

\* line 11, the connection is refused
AttachFail ==
    /\ pc = "attach"
    /\ attachAttempts' = attachAttempts + 1
    /\ Crash
    /\ UNCHANGED << NVIM, version, vim, mcp, bootCount, bootStatus,
                    registered, stdout, inv, call, calls, last, prev >>

\* lines 13-16
CreateServer ==
    /\ pc = "mkmcp"
    /\ mcp' = TRUE
    /\ pc' = "bootstrap"
    /\ UNCHANGED << NVIM, version, vim, attachAttempts, bootCount,
                    bootStatus, registered, stdout, exitCode, inv, call,
                    calls, last, prev >>

\* line 25, the script loads
BootstrapOk ==
    /\ pc = "bootstrap"
    /\ bootCount' = bootCount + 1
    /\ bootStatus' = "ok"
    /\ pc' = "register"
    /\ UNCHANGED << NVIM, version, vim, attachAttempts, mcp, registered,
                    stdout, exitCode, inv, call, calls, last, prev >>

\* line 25, vim.command raises: nothing at module level catches it
BootstrapFail ==
    /\ pc = "bootstrap"
    /\ bootCount' = bootCount + 1
    /\ bootStatus' = "failed"
    /\ Crash
    /\ UNCHANGED << NVIM, version, vim, attachAttempts, mcp, registered,
                    stdout, inv, call, calls, last, prev >>

\* lines 28-201, one decorator at a time, in file order
Register ==
    /\ pc = "register"
    /\ LET k == Cardinality(registered) + 1 IN
         /\ registered' = registered \cup {ToolOrder[k]}
         /\ pc' = IF k = Len(ToolOrder) THEN "main" ELSE "register"
    /\ UNCHANGED << NVIM, version, vim, attachAttempts, mcp, bootCount,
                    bootStatus, stdout, exitCode, inv, call, calls,
                    last, prev >>

\* lines 204-216
Main ==
    /\ pc = "main"
    /\ IF version
       THEN /\ stdout' = Append(stdout, VERSION)
            /\ exitCode' = 0
            /\ pc' = "exited"
       ELSE /\ pc' = "serve"
            /\ UNCHANGED << stdout, exitCode >>
    /\ UNCHANGED << NVIM, version, vim, attachAttempts, mcp, bootCount,
                    bootStatus, registered, inv, call, calls, last, prev >>

\* mcp.run dispatches a request to the registered handler.  Requests are
\* taken one at a time here: the handlers are synchronous functions and
\* nothing in server.py starts a thread or a task.
Invoke ==
    /\ pc = "serve"
    /\ \E tool \in registered : \E args \in ArgBags(tool) :
          inv' = [tool |-> tool, args |-> args]
    /\ calls' = 0
    /\ pc' = "call"
    /\ UNCHANGED << NVIM, version, vim, attachAttempts, mcp, bootCount,
                    bootStatus, registered, stdout, exitCode, call,
                    last, prev >>

\* the handler sends its request on the session and blocks
Call ==
    /\ pc = "call"
    /\ call' = [fn |-> RemoteCall(inv.tool, inv.args).fn,
                args |-> RemoteCall(inv.tool, inv.args).args,
                session |-> vim]
    /\ calls' = calls + 1
    /\ pc' = "wait"
    /\ UNCHANGED << NVIM, version, vim, attachAttempts, mcp, bootCount,
                    bootStatus, registered, stdout, exitCode, inv,
                    last, prev >>

\* the handler finishes with `reply`; the transport answers the request.
\* A handler that raises is answered by FastMCP with an error result and
\* the serve loop goes on.
Complete(reply) ==
    /\ prev' = last
    /\ last' = [tool |-> inv.tool, args |-> inv.args, reply |-> reply,
                outcome |-> Handler(inv.tool, reply), calls |-> calls]
    /\ call' = NoCall
    /\ pc' = "serve"
    /\ UNCHANGED << NVIM, version, vim, attachAttempts, mcp, bootCount,
                    bootStatus, registered, stdout, exitCode, inv, calls >>

\* the remote answers with a value
ReplyValue ==
    /\ pc = "wait"
    /\ \E v \in ValuesOf(inv.tool) : Complete(Value(v))

ReplyFaultRetriesOnce ==
    /\ pc = "wait"
    /\ \E f \in Faults :
          IF calls < 2
          THEN /\ calls' = calls + 1
               /\ UNCHANGED << NVIM, version, pc, vim, attachAttempts, mcp,
                               bootCount, bootStatus, registered, stdout,
                               exitCode, inv, call, last, prev >>
          ELSE Complete(f)

\* the remote call raises
ReplyFault ==
    /\ pc = "wait"
    /\ \E f \in Faults : Complete(f)

\* the transport ends (stdin closed): mcp.run returns, main returns
Shutdown ==
    /\ pc = "serve"
    /\ pc' = "exited"
    /\ exitCode' = 0
    /\ UNCHANGED << NVIM, version, vim, attachAttempts, mcp, bootCount,
                    bootStatus, registered, stdout, inv, call, calls,
                    last, prev >>

Next ==
    \/ CheckEnv
    \/ AttachOk
    \/ AttachFail
    \/ CreateServer
    \/ BootstrapOk
    \/ BootstrapFail
    \/ Register
    \/ Main
    \/ Invoke
    \/ Call
    \/ ReplyValue
    \/ ReplyFault
    \/ Shutdown

Spec == Init /\ [][Next]_vars


\* ------------------------------------------------------------ claims

Completed == last.tool # ""
Faulted(e) == e.tool # "" /\ e.reply.kind = "fault"

\* C1: whenever the remote call of a tool handler faults, the handler
\* returns a string that contains the fault's type name and its message;
\* no handler lets the fault propagate.
C1_EveryFaultNormalized ==
    Faulted(last) =>
        /\ last.outcome.kind = "return"
        /\ last.outcome.val.t = "str"
        /\ Contains(last.outcome.val.s, last.reply.type)
        /\ Contains(last.outcome.val.s, last.reply.msg)

\* C2: on a run started with -v / --version no connection to the remote
\* editor is attempted: neither the attach nor the bootstrap script load
\* ever happens.
C2_VersionNeverConnects ==
    version => (attachAttempts = 0 /\ bootCount = 0)

\* C3: a failed load of the companion script is not fatal: the process
\* does not terminate because of it.
C3_BootstrapFaultNonFatal ==
    bootStatus = "failed" => pc # "crashed"

\* C4: with NVIM unset or empty the startup fails fatally: no connection
\* is attempted, the server object is not created, no tool is registered
\* and the serve loop is never entered.
C4_MissingEnvFatal ==
    (NVIM = PyNone \/ NVIM = PyString("")) =>
        /\ attachAttempts = 0
        /\ vim = NoSession
        /\ ~mcp
        /\ bootCount = 0
        /\ registered = {}
        /\ pc \in {"import", "crashed"}
        /\ (pc = "crashed" => exitCode = 1)

C4_Witness ==
    NVIM = PyString("") /\ pc = "crashed" /\ exitCode = 1

\* C5: when the remote call of get_diagnostics faults, the returned
\* string begins with "INTERNAL ERROR: ".
C5_DiagnosticsInternalError ==
    (Faulted(last) /\ last.tool = "get_diagnostics") =>
        /\ last.outcome.kind = "return"
        /\ StartsWith(last.outcome.val.s, "INTERNAL ERROR: ")

SameRequest(a, b) ==
    /\ a.tool # ""
    /\ a.tool = b.tool
    /\ a.args = b.args
    /\ a.reply = b.reply

C6_Step ==
    /\ (vim # NoSession => vim' = vim)
    /\ attachAttempts' <= 1
    /\ (pc \in {"call", "wait"} => pc' \in {"call", "wait", "serve"})
    /\ (pc' = "wait" => (call'.session = vim' /\ vim' = 1))
    /\ (SameRequest(prev', last') => prev'.outcome = last'.outcome)

\* C6: over any sequence of invocations, faulted ones included, the
\* session handle created at startup is never reassigned and every remote
\* request goes out on it, a handler never ends the process, and two
\* invocations with the same tool, arguments and remote reply have the
\* same outcome whatever happened before them.
C6_SessionSharedCallsIsolated == [][C6_Step]_vars

C6_Witness ==
    /\ pc = "serve"
    /\ vim = 1
    /\ Faulted(prev)
    /\ Completed
    /\ last.tool # prev.tool
    /\ last.reply.kind = "value"
    /\ last.outcome = Return(last.reply.val)

\* C7: execute_lua always returns a string: "nil" when the remote call
\* yields no value, str(value) when it yields one ("2" for 2), and
\* "Error: <type>: <message>" when the remote call faults.
C7_ExecuteLuaResult ==
    (Completed /\ last.tool = "execute_lua") =>
        /\ last.outcome.kind = "return"
        /\ last.outcome.val.t = "str"
        /\ (last.reply.kind = "fault" =>
               /\ StartsWith(last.outcome.val.s, "Error: ")
               /\ Contains(last.outcome.val.s, last.reply.type)
               /\ Contains(last.outcome.val.s, last.reply.msg))
        /\ (last.reply = Value(PyNone) => last.outcome.val.s = "nil")
        /\ ((last.reply.kind = "value" /\ last.reply.val # PyNone) =>
               last.outcome.val.s = str(last.reply.val))
        /\ (last.reply = Value(PyInt(2)) => last.outcome.val.s = "2")
        /\ (last.reply = Value(PyInt(0)) => last.outcome.val.s = "0")
        /\ (last.reply = Value(PyBool(FALSE)) => last.outcome.val.s = "False")

C7_Witness ==
    /\ prev.tool = "execute_lua"
    /\ prev.reply = Value(PyInt(2))
    /\ prev.outcome = Return(PyString("2"))
    /\ last.tool = "execute_lua"
    /\ last.reply = Value(PyNone)
    /\ last.outcome = Return(PyString("nil"))

\* position of relative_path in the declared parameters (0: none)
PathIndex(tool) ==
    CASE tool \in {"get_diagnostics", "get_symbols_overview", "format"} -> 1
      [] tool \in {"find_symbol", "find_referencing_symbols",
                   "replace_symbol_body", "insert_after_symbol",
                   "insert_before_symbol", "rename_symbol"} -> 2
      [] OTHER -> 0

\* C8: the request a handler sends carries the handler's arguments
\* unchanged and in declared order; in particular an empty relative_path
\* goes out as the empty string, and the request is sent.
C8_ArgumentsForwardedUnchanged ==
    pc = "wait" =>
        /\ calls >= 1
        /\ call.fn = RemoteTarget(inv.tool)
        /\ Len(call.args) >= Len(inv.args)
        /\ \A k \in 1..Len(inv.args) : call.args[k] = inv.args[k]
        /\ (PathIndex(inv.tool) > 0 =>
               (inv.args[PathIndex(inv.tool)] = "" =>
                    call.args[PathIndex(inv.tool)] = ""))

C8_Witness ==
    /\ pc = "wait"
    /\ inv.tool = "get_diagnostics"
    /\ inv.args = <<"">>
    /\ call.fn = "NvimMcpServer.get_diagnostics"
    /\ call.args = <<"">>

\* C10: every invocation issues exactly one remote request, whether it
\* succeeds or faults, and the bootstrap script load is issued exactly
\* once at startup.
C10_ExactlyOneCall ==
    /\ calls <= 1
    /\ (pc = "wait" => calls = 1)
    /\ (Completed => last.calls = 1)
    /\ (prev.tool # "" => prev.calls = 1)
    /\ bootCount <= 1
    /\ (pc \in {"register", "main", "serve", "call", "wait"} => bootCount = 1)

C10_Witness ==
    /\ pc = "serve"
    /\ bootCount = 1
    /\ Faulted(prev)
    /\ prev.calls = 1
    /\ Faulted(last)
    /\ last.calls = 1

====
